---- MODULE Spec2Model ----
(***************************************************************************)
(* Model of man/sd_bus_service_reconnect.c: a D-Bus service that publishes *)
(* one object with one property and re-creates its bus connection each     *)
(* time the bus is disconnected.                                           *)
(*                                                                         *)
(* main() and setup() are modelled call by call: every call wrapped in     *)
(* check() is one step that draws the call's return value, logs it and     *)
(* either goes on or returns EXIT_FAILURE from the enclosing function.     *)
(***************************************************************************)
EXTENDS Integers, Sequences, FiniteSets

\* ---------------------------------------------------------------- bounds
\* number of times the broker may go away during one run
MaxBrokerStops == 2

\* number of property reads dispatched during one run
MaxReads == 2

\* ------------------------------------------------------------- constants
EXIT_FAILURE == 1

\* values a library call may return: a negative errno or success
CallResults == {-1, 0}

VARIABLES
    pc,           \* position of main()
    spc,          \* position inside setup(), "none" when setup() is not running
    caller,       \* who called the running setup(): "main", "cb" or "none"
    sret,         \* value returned by the last setup()
    bus,          \* main()'s variable bus, the slot *o->bus (0 is NULL)
    event,        \* main()'s variable event (0 is NULL, 1 the default loop)
    handles,      \* every sd_bus object created so far, by identity
    broker,       \* TRUE while the D-Bus broker is reachable
    exitStatus,   \* value returned by main(), -1 while it has not returned
    log,          \* the last line printed by check()
    \* history of the run, used to state the properties
    setupCalls,   \* number of setup() invocations
    dispatched,   \* number of Disconnected notifications dispatched
    cbHandle,     \* handle on which the running on_disconnect() was dispatched
    setupFailed,  \* some setup() returned through a failing check()
    fault,        \* the running/last setup() got an injected library failure
    brokerEverUp, \* the broker has been reachable at some point
    brokerStops,  \* number of broker stops so far
    misuse,       \* handles on which a call was issued after their close
    termSignal,   \* SIGINT/SIGTERM was delivered to the running loop
    released,     \* handles passed to sd_bus_release_name, in order
    releaseRet,   \* value returned by sd_bus_release_name, 1 before the call
    eventStat,    \* [created, released]: counts for the event loop
    example,      \* o.example, the value of property "Example"
    reads,        \* number of property reads dispatched
    reply,        \* outcome of the last property_get()
    prevReply     \* outcome of the property_get() before the last one

vars == <<pc, spc, caller, sret, bus, event, handles, broker, exitStatus, log,
          setupCalls, dispatched, cbHandle, setupFailed, fault, brokerEverUp,
          brokerStops, misuse, termSignal, released, releaseRet, eventStat,
          example, reads, reply, prevReply>>

mainVars == <<pc, event, exitStatus, termSignal, released, releaseRet, eventStat>>
envVars == <<broker, brokerEverUp, brokerStops>>
propVars == <<example, reads, reply, prevReply>>

\* no property read has been answered yet
NoReply ==
    [property |-> "none", r |-> 0, value |-> "none", error |-> "none",
     name |-> "none", handle |-> 0]

\* ------------------------------------------------------------ check(x)
\* check() returns EXIT_FAILURE from the enclosing function iff x < 0
CheckFails(r) == r < 0

\* errno = _r < 0 ? -_r : 0; printf(#x ": %m\n")
LogLine(call, r) == [call |-> call, errno |-> IF r < 0 THEN -r ELSE 0]

\* ------------------------------------------------------------- handles
\* a freshly allocated sd_bus object
NewHandle ==
    [state |-> "unset", attached |-> FALSE, address |-> FALSE,
     busClient |-> FALSE, creds |-> FALSE, watchBind |-> FALSE,
     connectedSignal |-> FALSE, objects |-> 0, names |-> 0, watches |-> 0,
     startedDown |-> FALSE, closes |-> 0, closedAttached |-> FALSE,
     dispatches |-> 0, loop |-> 0]

Ids == 1 .. Len(handles)
Live(h) == handles[h].state # "closed"
LiveHandles == {h \in Ids : Live(h)}

\* a call on the handle in the slot; records a call on a closed handle
Touch == IF bus # 0 /\ ~Live(bus) THEN misuse \cup {bus} ELSE misuse

Init ==
    /\ pc = "event_default"
    /\ spc = "none"
    /\ caller = "none"
    /\ sret = 0
    /\ bus = 0
    /\ event = 0
    /\ handles = <<>>
    /\ broker \in BOOLEAN
    /\ exitStatus = -1
    /\ log = LogLine("none", 0)
    /\ setupCalls = 0
    /\ dispatched = 0
    /\ cbHandle = 0
    /\ setupFailed = FALSE
    /\ fault = FALSE
    /\ brokerEverUp = broker
    /\ brokerStops = 0
    /\ misuse = {}
    /\ termSignal = FALSE
    /\ released = <<>>
    /\ releaseRet = 1
    /\ eventStat = [created |-> 0, released |-> 0]
    /\ example = "example"
    /\ reads = 0
    /\ reply = NoReply
    /\ prevReply = NoReply

\* ---------------------------------------------------------------- setup()
\* setup() without the block "if (*o->bus)": the old handle is never torn down
SetupEntry_NoTeardown == "new"

\* where setup() starts: the block "if (*o->bus)" or sd_bus_new
SetupEntry == IF bus # 0 THEN "detach" ELSE "new"

\* check() that logs but does not return: setup() goes on after a failure
SetupStep_NoReturn(cur, next, call, r, injected, newHandles) ==
    /\ spc = cur
    /\ log' = LogLine(call, r)
    /\ misuse' = Touch
    /\ fault' = (fault \/ injected)
    /\ spc' = next
    /\ handles' = IF CheckFails(r) THEN handles ELSE newHandles
    /\ UNCHANGED <<sret, setupFailed>>
    /\ UNCHANGED <<caller, bus, setupCalls, dispatched, cbHandle>>
    /\ UNCHANGED mainVars
    /\ UNCHANGED envVars
    /\ UNCHANGED propVars

\* one call of setup() wrapped in check(): log it, then return EXIT_FAILURE
\* or apply the call's effect and go on to the next call
SetupStep(cur, next, call, r, injected, newHandles) ==
    /\ spc = cur
    /\ log' = LogLine(call, r)
    /\ misuse' = Touch
    /\ fault' = (fault \/ injected)
    /\ IF CheckFails(r)
       THEN /\ spc' = "ret"
            /\ sret' = EXIT_FAILURE
            /\ setupFailed' = TRUE
            /\ handles' = handles
       ELSE /\ spc' = next
            /\ handles' = newHandles
            /\ UNCHANGED <<sret, setupFailed>>
    /\ UNCHANGED <<caller, bus, setupCalls, dispatched, cbHandle>>
    /\ UNCHANGED mainVars
    /\ UNCHANGED envVars
    /\ UNCHANGED propVars

\* check(sd_bus_detach_event(*o->bus))
SetupDetach ==
    \E r \in CallResults :
        SetupStep("detach", "close", "sd_bus_detach_event", r, r < 0,
                  [handles EXCEPT ![bus].attached = FALSE])

\* closing does not detach: a handle that is attached when it is closed is
\* closed while attached to the loop
ClosedWhileAttached(h) == handles[h].attached

\* sd_bus_close_unref: closes the connection and drops the reference
CloseUnref(h) ==
    [handles EXCEPT ![h].state = "closed",
                    ![h].closes = @ + 1,
                    ![h].closedAttached = @ \/ ClosedWhileAttached(h)]

\* sd_bus_close_unref(*o->bus) with its result dropped: the slot keeps the
\* closed handle
SetupClose_KeepSlot ==
    /\ spc = "close"
    /\ handles' = CloseUnref(bus)
    /\ spc' = "new"
    /\ misuse' = Touch
    /\ UNCHANGED <<caller, sret, bus, log, setupCalls, dispatched, cbHandle,
                   setupFailed, fault>>
    /\ UNCHANGED mainVars
    /\ UNCHANGED envVars
    /\ UNCHANGED propVars

\* *o->bus = sd_bus_close_unref(*o->bus)
SetupClose ==
    /\ spc = "close"
    /\ handles' = CloseUnref(bus)
    /\ bus' = 0
    /\ spc' = "new"
    /\ misuse' = Touch
    /\ UNCHANGED <<caller, sret, log, setupCalls, dispatched, cbHandle,
                   setupFailed, fault>>
    /\ UNCHANGED mainVars
    /\ UNCHANGED envVars
    /\ UNCHANGED propVars

\* check(sd_bus_new(o->bus)): on success the slot holds a fresh object
SetupNew ==
    /\ spc = "new"
    /\ \E r \in CallResults :
        /\ log' = LogLine("sd_bus_new", r)
        /\ fault' = (fault \/ r < 0)
        /\ IF CheckFails(r)
           THEN /\ spc' = "ret"
                /\ sret' = EXIT_FAILURE
                /\ setupFailed' = TRUE
                /\ UNCHANGED <<handles, bus>>
           ELSE /\ spc' = "set_address"
                /\ handles' = Append(handles, NewHandle)
                /\ bus' = Len(handles) + 1
                /\ UNCHANGED <<sret, setupFailed>>
    /\ UNCHANGED <<caller, setupCalls, dispatched, cbHandle, misuse>>
    /\ UNCHANGED mainVars
    /\ UNCHANGED envVars
    /\ UNCHANGED propVars

\* check(sd_bus_set_address(*o->bus, "unix:path=/run/dbus/system_bus_socket"))
SetupSetAddress ==
    \E r \in CallResults :
        SetupStep("set_address", "set_bus_client", "sd_bus_set_address", r, r < 0,
                  [handles EXCEPT ![bus].address = TRUE])

\* check(sd_bus_set_bus_client(*o->bus, 1))
SetupSetBusClient ==
    \E r \in CallResults :
        SetupStep("set_bus_client", "negotiate_creds", "sd_bus_set_bus_client", r, r < 0,
                  [handles EXCEPT ![bus].busClient = TRUE])

\* check(sd_bus_negotiate_creds(*o->bus, 1, UID|EUID|EFFECTIVE_CAPS))
SetupNegotiateCreds ==
    \E r \in CallResults :
        SetupStep("negotiate_creds", "set_watch_bind", "sd_bus_negotiate_creds", r, r < 0,
                  [handles EXCEPT ![bus].creds = TRUE])

\* sd_bus_set_watch_bind(*o->bus, 0): the handle does not wait for the socket
SetupSetWatchBind_Off ==
    \E r \in CallResults :
        SetupStep("set_watch_bind", "set_connected_signal", "sd_bus_set_watch_bind", r, r < 0,
                  [handles EXCEPT ![bus].watchBind = FALSE])

\* check(sd_bus_set_watch_bind(*o->bus, 1)): wait for the socket to appear
SetupSetWatchBind ==
    \E r \in CallResults :
        SetupStep("set_watch_bind", "set_connected_signal", "sd_bus_set_watch_bind", r, r < 0,
                  [handles EXCEPT ![bus].watchBind = TRUE])

\* check(sd_bus_set_connected_signal(*o->bus, 1))
SetupSetConnectedSignal ==
    \E r \in CallResults :
        SetupStep("set_connected_signal", "start", "sd_bus_set_connected_signal", r, r < 0,
                  [handles EXCEPT ![bus].connectedSignal = TRUE])

\* result of sd_bus_start: without watch-bind an absent broker is an error,
\* with it the call succeeds and the connection is made later by the loop
StartResult(h, r) == IF ~broker /\ ~handles[h].watchBind THEN -1 ELSE r

\* check(sd_bus_start(*o->bus))
SetupStart ==
    \E r \in CallResults :
        SetupStep("start", "add_object", "sd_bus_start", StartResult(bus, r), r < 0,
                  [handles EXCEPT ![bus].state = "opening",
                                  ![bus].startedDown = ~broker])

\* check(sd_bus_add_object_vtable(*o->bus, NULL, path, interface, vtable, o))
SetupAddObject ==
    \E r \in CallResults :
        SetupStep("add_object", "request_name", "sd_bus_add_object_vtable", r, r < 0,
                  [handles EXCEPT ![bus].objects = @ + 1])

\* check(sd_bus_request_name_async(*o->bus, NULL, name, 0, NULL, NULL))
SetupRequestName ==
    \E r \in CallResults :
        SetupStep("request_name", "match", "sd_bus_request_name_async", r, r < 0,
                  [handles EXCEPT ![bus].names = @ + 1])

\* the Disconnected match installed by main()'s setup() only
SetupMatch_OneShot ==
    \E r \in CallResults :
        SetupStep("match", "attach", "sd_bus_match_signal_async", r, r < 0,
                  [handles EXCEPT ![bus].watches =
                                      IF caller = "main" THEN @ + 1 ELSE @])

\* check(sd_bus_match_signal_async(*o->bus, ..., "Disconnected", on_disconnect, NULL, o))
SetupMatch ==
    \E r \in CallResults :
        SetupStep("match", "attach", "sd_bus_match_signal_async", r, r < 0,
                  [handles EXCEPT ![bus].watches = @ + 1])

\* setup() that obtains an event loop of its own before attaching
SetupAttach_OwnLoop ==
    /\ spc = "attach"
    /\ \E r \in CallResults :
        /\ log' = LogLine("sd_bus_attach_event", r)
        /\ fault' = (fault \/ r < 0)
        /\ IF CheckFails(r)
           THEN /\ sret' = EXIT_FAILURE
                /\ setupFailed' = TRUE
                /\ handles' = handles
           ELSE /\ sret' = 0
                /\ handles' = [handles EXCEPT ![bus].attached = TRUE,
                                              ![bus].loop = event]
                /\ UNCHANGED setupFailed
    /\ spc' = "ret"
    /\ misuse' = Touch
    /\ eventStat' = [eventStat EXCEPT !.created = @ + 1]
    /\ UNCHANGED <<caller, bus, setupCalls, dispatched, cbHandle>>
    /\ UNCHANGED <<pc, event, exitStatus, termSignal, released, releaseRet>>
    /\ UNCHANGED envVars
    /\ UNCHANGED propVars

\* check(sd_bus_attach_event(*o->bus, *o->event, 0)); return 0
SetupAttach ==
    /\ spc = "attach"
    /\ \E r \in CallResults :
        /\ log' = LogLine("sd_bus_attach_event", r)
        /\ fault' = (fault \/ r < 0)
        /\ IF CheckFails(r)
           THEN /\ sret' = EXIT_FAILURE
                /\ setupFailed' = TRUE
                /\ handles' = handles
           ELSE /\ sret' = 0
                /\ handles' = [handles EXCEPT ![bus].attached = TRUE,
                                              ![bus].loop = event]
                /\ UNCHANGED setupFailed
    /\ spc' = "ret"
    /\ misuse' = Touch
    /\ UNCHANGED <<caller, bus, setupCalls, dispatched, cbHandle>>
    /\ UNCHANGED mainVars
    /\ UNCHANGED envVars
    /\ UNCHANGED propVars

\* --------------------------------------------------------------- main()
setupVars == <<spc, caller, sret, setupCalls, dispatched, cbHandle,
               setupFailed, fault>>

\* a call of main() wrapped in check() that only succeeds or fails
MainStep(cur, next, call, r) ==
    /\ pc = cur
    /\ log' = LogLine(call, r)
    /\ IF CheckFails(r)
       THEN /\ exitStatus' = EXIT_FAILURE
            /\ pc' = "cleanup_event"
       ELSE /\ pc' = next
            /\ UNCHANGED exitStatus

\* check(sd_event_default(&event))
MainEventDefault ==
    /\ \E r \in CallResults :
        /\ MainStep("event_default", "add_sigint", "sd_event_default", r)
        /\ IF CheckFails(r)
           THEN UNCHANGED <<event, eventStat>>
           ELSE /\ event' = 1
                /\ eventStat' = [eventStat EXCEPT !.created = @ + 1]
    /\ UNCHANGED <<bus, handles, misuse, termSignal, released, releaseRet>>
    /\ UNCHANGED setupVars
    /\ UNCHANGED envVars
    /\ UNCHANGED propVars

\* check(sd_event_add_signal(event, NULL, SIGINT|SD_EVENT_SIGNAL_PROCMASK, NULL, NULL))
MainAddSigint ==
    /\ \E r \in CallResults :
        MainStep("add_sigint", "add_sigterm", "sd_event_add_signal(SIGINT)", r)
    /\ UNCHANGED <<bus, event, handles, misuse, termSignal, released,
                   releaseRet, eventStat>>
    /\ UNCHANGED setupVars
    /\ UNCHANGED envVars
    /\ UNCHANGED propVars

\* check(sd_event_add_signal(event, NULL, SIGTERM|SD_EVENT_SIGNAL_PROCMASK, NULL, NULL))
MainAddSigterm ==
    /\ \E r \in CallResults :
        MainStep("add_sigterm", "setup", "sd_event_add_signal(SIGTERM)", r)
    /\ UNCHANGED <<bus, event, handles, misuse, termSignal, released,
                   releaseRet, eventStat>>
    /\ UNCHANGED setupVars
    /\ UNCHANGED envVars
    /\ UNCHANGED propVars

\* main() enters setup(&o)
MainCallSetup ==
    /\ pc = "setup"
    /\ spc = "none"
    /\ spc' = SetupEntry
    /\ caller' = "main"
    /\ setupCalls' = setupCalls + 1
    /\ fault' = FALSE
    /\ UNCHANGED <<sret, bus, handles, log, dispatched, cbHandle, setupFailed,
                   misuse>>
    /\ UNCHANGED mainVars
    /\ UNCHANGED envVars
    /\ UNCHANGED propVars

\* check(setup(&o)) in main(): setup() has returned sret
MainSetupReturn ==
    /\ spc = "ret"
    /\ caller = "main"
    /\ MainStep("setup", "loop", "setup", sret)
    /\ spc' = "none"
    /\ caller' = "none"
    /\ UNCHANGED <<sret, bus, event, handles, setupCalls, dispatched, cbHandle,
                   setupFailed, fault, misuse, termSignal, released,
                   releaseRet, eventStat>>
    /\ UNCHANGED envVars
    /\ UNCHANGED propVars

\* a loop that dispatches while a callback is still executing
LoopIdle_Reentrant == pc = "loop"

\* the loop is running and no callback is executing
LoopIdle == pc = "loop" /\ spc = "none"

\* sd_event_loop() dispatches the Disconnected match of an attached handle:
\* on_disconnect() is entered and calls setup()
DispatchDisconnect ==
    /\ LoopIdle
    /\ \E h \in Ids :
        /\ handles[h].attached
        /\ handles[h].state = "closing"
        /\ handles[h].watches > 0
        /\ handles' = [handles EXCEPT ![h].state = "disconnected",
                                      ![h].dispatches = @ + 1]
        /\ cbHandle' = h
    /\ spc' = SetupEntry
    /\ caller' = "cb"
    /\ setupCalls' = setupCalls + 1
    /\ dispatched' = dispatched + 1
    /\ fault' = FALSE
    /\ UNCHANGED <<sret, bus, log, setupFailed, misuse>>
    /\ UNCHANGED mainVars
    /\ UNCHANGED envVars
    /\ UNCHANGED propVars

\* on_disconnect() that calls setup() again when setup() did not return 0
OnDisconnectReturn_Retry ==
    /\ spc = "ret"
    /\ caller = "cb"
    /\ log' = LogLine("setup", sret)
    /\ IF sret # 0
       THEN /\ spc' = SetupEntry
            /\ setupCalls' = setupCalls + 1
            /\ UNCHANGED caller
       ELSE /\ spc' = "none"
            /\ caller' = "none"
            /\ UNCHANGED setupCalls
    /\ UNCHANGED <<sret, bus, handles, dispatched, cbHandle, setupFailed,
                   fault, misuse>>
    /\ UNCHANGED mainVars
    /\ UNCHANGED envVars
    /\ UNCHANGED propVars

\* check(setup(...)); return 0 in on_disconnect(): back to the loop
OnDisconnectReturn ==
    /\ spc = "ret"
    /\ caller = "cb"
    /\ log' = LogLine("setup", sret)
    /\ spc' = "none"
    /\ caller' = "none"
    /\ UNCHANGED <<sret, bus, handles, setupCalls, dispatched, cbHandle,
                   setupFailed, fault, misuse>>
    /\ UNCHANGED mainVars
    /\ UNCHANGED envVars
    /\ UNCHANGED propVars

\* the loop completes the connection of an attached, started handle once the
\* broker is reachable; the queued name request and the object take effect
BusConnect ==
    /\ LoopIdle
    /\ broker
    /\ \E h \in Ids :
        /\ handles[h].attached
        /\ handles[h].state = "opening"
        /\ handles' = [handles EXCEPT ![h].state = "running"]
    /\ UNCHANGED <<bus, log, misuse>>
    /\ UNCHANGED setupVars
    /\ UNCHANGED mainVars
    /\ UNCHANGED envVars
    /\ UNCHANGED propVars

\* SIGINT or SIGTERM: the default handler exits the loop, sd_event_loop
\* returns 0 and check(sd_event_loop(event)) goes on
Signal ==
    /\ LoopIdle
    /\ MainStep("loop", "release", "sd_event_loop", 0)
    /\ termSignal' = TRUE
    /\ UNCHANGED <<bus, event, handles, misuse, released, releaseRet, eventStat>>
    /\ UNCHANGED setupVars
    /\ UNCHANGED envVars
    /\ UNCHANGED propVars

\* sd_event_loop fails: check(sd_event_loop(event)) returns EXIT_FAILURE
LoopFail ==
    /\ LoopIdle
    /\ MainStep("loop", "release", "sd_event_loop", -1)
    /\ UNCHANGED <<bus, event, handles, misuse, termSignal, released,
                   releaseRet, eventStat>>
    /\ UNCHANGED setupVars
    /\ UNCHANGED envVars
    /\ UNCHANGED propVars

\* ------------------------------------------------------- property_get()
\* property names a caller may ask for
PropertyNames == {"Example", "Other"}

\* property_get that answers every name with the value
property_get_AnyName(property, r) ==
    [property |-> property, r |-> r,
     value |-> IF r < 0 THEN "none" ELSE example,
     error |-> "none", name |-> "none", handle |-> 0]

\* property_get that answers with the name asked for instead of o->example
property_get_EchoName(property, r) ==
    IF property = "Example"
    THEN [property |-> property, r |-> r,
          value |-> IF r < 0 THEN "none" ELSE property,
          error |-> "none", name |-> "none", handle |-> 0]
    ELSE [property |-> property, r |-> -1, value |-> "none",
          error |-> "UnknownProperty", name |-> property, handle |-> 0]

\* property_get(): "Example" appends o->example to the reply and returns the
\* result r of sd_bus_message_append; any other name sets the error
\* SD_BUS_ERROR_UNKNOWN_PROPERTY "Unknown property '%s'" and returns the
\* negative value of sd_bus_error_setf
property_get(property, r) ==
    IF property = "Example"
    THEN [property |-> property, r |-> r,
          value |-> IF r < 0 THEN "none" ELSE example,
          error |-> "none", name |-> "none", handle |-> 0]
    ELSE [property |-> property, r |-> -1, value |-> "none",
          error |-> "UnknownProperty", name |-> property, handle |-> 0]

\* the loop dispatches callbacks only for a handle that is attached to it and
\* not closed
Dispatchable(h) == handles[h].attached /\ Live(h)

\* the loop dispatches a property read that arrived on a connected, attached
\* handle carrying the object; property_get() runs to completion
PropertyRead ==
    /\ LoopIdle
    /\ reads < MaxReads
    /\ \E h \in Ids, property \in PropertyNames, r \in CallResults :
        /\ Dispatchable(h)
        /\ handles[h].state = "running"
        /\ handles[h].objects > 0
        /\ reply' = [property_get(property, r) EXCEPT !.handle = h]
    /\ prevReply' = reply
    /\ reads' = reads + 1
    /\ UNCHANGED <<example, bus, handles, log, misuse>>
    /\ UNCHANGED setupVars
    /\ UNCHANGED mainVars
    /\ UNCHANGED envVars

\* sd_bus_release_name is the synchronous call: it sends ReleaseName and
\* waits for the reply, so on a started handle that is not connected yet it
\* first waits for the connection, that is for the broker
ReleaseWaits == bus # 0 /\ handles[bus].state = "opening" /\ ~broker

\* NULL or a handle that is not open is refused at once
ReleaseResult(r) ==
    IF bus = 0 THEN -1
    ELSE IF handles[bus].state \in {"opening", "running"} THEN r
    ELSE -1

\* check(sd_bus_release_name(bus, ...)) returns; then return 0
ReleaseFinish(r) ==
    /\ log' = LogLine("sd_bus_release_name", r)
    /\ releaseRet' = r
    /\ exitStatus' = IF CheckFails(r) THEN EXIT_FAILURE ELSE 0
    /\ pc' = "cleanup_event"
    /\ handles' = IF bus # 0 /\ handles[bus].state = "opening"
                  THEN [handles EXCEPT ![bus].state = "running"]
                  ELSE handles

\* main() calls sd_bus_release_name(bus, "org.freedesktop.ReconnectExample")
MainReleaseName ==
    /\ pc = "release"
    /\ released' = Append(released, bus)
    /\ misuse' = Touch
    /\ IF ReleaseWaits
       THEN /\ pc' = "release_wait"
            /\ UNCHANGED <<handles, exitStatus, log, releaseRet>>
       ELSE \E r \in CallResults : ReleaseFinish(ReleaseResult(r))
    /\ UNCHANGED <<bus, event, termSignal, eventStat>>
    /\ UNCHANGED setupVars
    /\ UNCHANGED envVars
    /\ UNCHANGED propVars

\* the broker has come back: the waiting sd_bus_release_name goes on
MainReleaseNameResume ==
    /\ pc = "release_wait"
    /\ broker
    /\ \E r \in CallResults : ReleaseFinish(ReleaseResult(r))
    /\ UNCHANGED <<bus, event, misuse, termSignal, released, eventStat>>
    /\ UNCHANGED setupVars
    /\ UNCHANGED envVars
    /\ UNCHANGED propVars

\* _cleanup_(sd_event_unrefp) sd_event *event: declared last, released first
MainCleanupEvent ==
    /\ pc = "cleanup_event"
    /\ pc' = "cleanup_bus"
    /\ eventStat' = IF event # 0
                    THEN [eventStat EXCEPT !.released = @ + 1]
                    ELSE eventStat
    /\ UNCHANGED <<bus, event, handles, exitStatus, log, misuse, termSignal,
                   released, releaseRet>>
    /\ UNCHANGED setupVars
    /\ UNCHANGED envVars
    /\ UNCHANGED propVars

\* sd_bus *bus declared without the cleanup attribute
MainCleanupBus_Missing ==
    /\ pc = "cleanup_bus"
    /\ pc' = "done"
    /\ UNCHANGED <<bus, event, handles, exitStatus, log, misuse, termSignal,
                   released, releaseRet, eventStat>>
    /\ UNCHANGED setupVars
    /\ UNCHANGED envVars
    /\ UNCHANGED propVars

\* _cleanup_(sd_bus_flush_close_unrefp) sd_bus *bus; main() has returned
MainCleanupBus ==
    /\ pc = "cleanup_bus"
    /\ pc' = "done"
    /\ handles' = IF bus # 0 THEN CloseUnref(bus) ELSE handles
    /\ misuse' = Touch
    /\ UNCHANGED <<bus, event, exitStatus, log, termSignal, released,
                   releaseRet, eventStat>>
    /\ UNCHANGED setupVars
    /\ UNCHANGED envVars
    /\ UNCHANGED propVars

\* ------------------------------------------------------------ the broker
\* the broker goes away: every connected handle loses its connection and
\* has a Disconnected notification pending
BrokerStop ==
    /\ pc # "done"
    /\ broker
    /\ brokerStops < MaxBrokerStops
    /\ broker' = FALSE
    /\ brokerStops' = brokerStops + 1
    /\ handles' = [h \in Ids |->
                     IF handles[h].state = "running"
                     THEN [handles[h] EXCEPT !.state = "closing"]
                     ELSE handles[h]]
    /\ UNCHANGED <<bus, log, misuse, brokerEverUp>>
    /\ UNCHANGED setupVars
    /\ UNCHANGED mainVars
    /\ UNCHANGED propVars

\* the broker (re)appears
BrokerStart ==
    /\ pc # "done"
    /\ ~broker
    /\ broker' = TRUE
    /\ brokerEverUp' = TRUE
    /\ UNCHANGED <<bus, handles, log, misuse, brokerStops>>
    /\ UNCHANGED setupVars
    /\ UNCHANGED mainVars
    /\ UNCHANGED propVars

Next ==
    \/ MainEventDefault
    \/ MainAddSigint
    \/ MainAddSigterm
    \/ MainCallSetup
    \/ SetupDetach
    \/ SetupClose
    \/ SetupNew
    \/ SetupSetAddress
    \/ SetupSetBusClient
    \/ SetupNegotiateCreds
    \/ SetupSetWatchBind
    \/ SetupSetConnectedSignal
    \/ SetupStart
    \/ SetupAddObject
    \/ SetupRequestName
    \/ SetupMatch
    \/ SetupAttach
    \/ MainSetupReturn
    \/ DispatchDisconnect
    \/ OnDisconnectReturn
    \/ BusConnect
    \/ PropertyRead
    \/ Signal
    \/ LoopFail
    \/ MainReleaseName
    \/ MainReleaseNameResume
    \/ MainCleanupEvent
    \/ MainCleanupBus
    \/ BrokerStop
    \/ BrokerStart

Spec == Init /\ [][Next]_vars

\* =============================================================== claims
\* setup() has run all its steps and is about to return 0
SetupSucceeded == spc = "ret" /\ sret = 0

\* the handle carries one object, one name request and one armed watch and
\* is attached to the loop
FullySetUp(h) ==
    /\ Live(h)
    /\ handles[h].attached
    /\ handles[h].objects = 1
    /\ handles[h].names = 1
    /\ handles[h].watches = 1

\* C1: every setup() cycle that completes without a failing step ends with
\* exactly one live handle, the one in the slot, attached and carrying
\* exactly one object registration, one name request and one armed
\* disconnect watch; no other handle is live.
C1_SetupEndsAttached ==
    SetupSucceeded =>
        /\ bus # 0
        /\ LiveHandles = {bus}
        /\ FullySetUp(bus)
        /\ handles[bus].state = "opening"

\* C1 witness: a second reconnect cycle has completed
C1_Witness == SetupSucceeded /\ caller = "cb" /\ dispatched = 2

\* C2: a failed setup() is fatal: once a setup() that failed has returned to
\* its caller, main() has returned EXIT_FAILURE.
C2_FailedSetupIsFatal ==
    (setupFailed /\ spc = "none") => exitStatus = EXIT_FAILURE

\* C3: no handle is closed while it is attached to the loop.
C3_DetachBeforeClose ==
    \A h \in Ids : ~handles[h].closedAttached

\* C4: a dispatched Disconnected notification always enters setup(), and a
\* setup() run from the disconnect callback that completes leaves in the
\* slot a live, attached handle with a newly armed watch that is not the
\* disconnected handle, which is closed.
C4_CallbackRebuilds ==
    (SetupSucceeded /\ caller = "cb") =>
        /\ bus # 0
        /\ bus # cbHandle
        /\ bus = Len(handles)
        /\ Live(bus)
        /\ handles[bus].attached
        /\ handles[bus].watches = 1
        /\ ~Live(cbHandle)

C4_DispatchEntersSetup ==
    (dispatched' # dispatched) =>
        /\ dispatched' = dispatched + 1
        /\ setupCalls' = setupCalls + 1
        /\ caller' = "cb"
        /\ spc' \in {"detach", "new"}

C4_DisconnectNeverTerminal ==
    [](C4_CallbackRebuilds) /\ [][C4_DispatchEntersSetup]_vars

\* C4 witness: the loop is running on the third handle generation
C4_Witness ==
    LoopIdle /\ dispatched = 2 /\ bus = 3 /\ FullySetUp(bus) /\ ~setupFailed

\* C5: a setup() called by main() that meets no library failure returns 0
\* whether or not the broker is there, with the handle attached and not yet
\* connected; a handle that setup() left attached becomes connected only
\* while the broker is reachable, it is then the handle in the slot with its
\* object and name request, and no setup() is invoked by that step.
C5_SetupToleratesAbsence ==
    (spc = "ret" /\ caller = "main" /\ ~fault) =>
        /\ sret = 0
        /\ FullySetUp(bus)
        /\ handles[bus].state = "opening"

C5_ConnectsWithoutSetup ==
    \A h \in Ids :
        (/\ handles[h].attached
         /\ handles[h].state = "opening"
         /\ handles'[h].state = "running") =>
            /\ broker
            /\ h = bus
            /\ bus' = bus
            /\ setupCalls' = setupCalls
            /\ spc' = spc
            /\ handles[h].objects = 1
            /\ handles[h].names = 1

C5_BrokerAbsentAtStartup ==
    [](C5_SetupToleratesAbsence) /\ [][C5_ConnectsWithoutSetup]_vars

\* C5 witness: the handle started while the broker was absent is connected
\* and setup() has run once
C5_Witness ==
    /\ LoopIdle
    /\ setupCalls = 1
    /\ bus = 1
    /\ handles[1].startedDown
    /\ handles[1].state = "running"

\* C6: the process is never inside a bus call waiting for the broker.
C6_NoBusCallWaits == pc # "release_wait"

\* C7: when main() has returned after a termination signal, the name was
\* released exactly once, on the handle in the slot, every handle and the
\* event loop are released and the exit status is 0.
C7_SignalExitsZero ==
    (pc = "done" /\ termSignal) =>
        /\ released = <<bus>>
        /\ LiveHandles = {}
        /\ eventStat.released = 1
        /\ exitStatus = 0

\* C8: when the name release has failed, main() returns the status of a
\* successful release.
C8_ReleaseFailureKeepsExit ==
    (releaseRet < 0 /\ pc \in {"cleanup_event", "cleanup_bus", "done"}) =>
        exitStatus = 0

\* C9: at most one handle is live, it is the one in the slot, sd_bus_new is
\* reached only with an empty slot, and no call is issued on a closed handle.
C9_OneLiveHandle ==
    /\ LiveHandles \subseteq {bus}
    /\ Cardinality(LiveHandles) <= 1
    /\ spc = "new" => bus = 0
    /\ misuse = {}

\* C9 witness: the old handle is closed and its successor is in the slot
C9_Witness ==
    /\ caller = "cb"
    /\ spc = "start"
    /\ bus = 2
    /\ ~Live(1)

\* C10: when main() has returned, no handle is live, every handle created
\* was closed exactly once, and the event loop was released once if it was
\* created and not at all otherwise.
C10_AllReleasedOnExit ==
    pc = "done" =>
        /\ LiveHandles = {}
        /\ \A h \in Ids : handles[h].closes = 1
        /\ eventStat.created <= 1
        /\ eventStat.released = eventStat.created

\* C10 witness: main() has returned through a failing name release after a
\* reconnect
C10_Witness ==
    /\ pc = "done"
    /\ exitStatus = EXIT_FAILURE
    /\ releaseRet < 0
    /\ Len(handles) = 2

\* C11: every answered read of "Example" carries the literal "example" and
\* no error, whichever handle generation it arrived on, so two consecutive
\* reads agree; o.example never changes and a read leaves the value, the
\* slot, the handles and the event loop as they were.
C11_ReplyIsExample ==
    /\ example = "example"
    /\ \A rp \in {reply, prevReply} :
        rp.property = "Example" =>
            /\ rp.error = "none"
            /\ rp.r >= 0 => rp.value = "example"
    /\ (/\ reply.property = "Example" /\ reply.r >= 0
        /\ prevReply.property = "Example" /\ prevReply.r >= 0) =>
            reply.value = prevReply.value

C11_ReadHasNoEffect ==
    (reads' # reads) => UNCHANGED <<example, bus, event, eventStat, handles>>

C11_ExampleIsConstant ==
    [](C11_ReplyIsExample) /\ [][C11_ReadHasNoEffect]_vars

\* C11 witness: two answered reads of "Example", one before and one after a
\* reconnect
C11_Witness ==
    /\ reads = 2
    /\ prevReply.property = "Example" /\ prevReply.r >= 0 /\ prevReply.handle = 1
    /\ reply.property = "Example" /\ reply.r >= 0 /\ reply.handle = 2

\* C12: a read of any other name yields the unknown-property error with the
\* name asked for and a negative return value, and the step leaves main() in
\* the loop with no exit status, no setup() started and the slot, the
\* handles and the event loop as they were.
C12_UnknownPropertyError ==
    \A rp \in {reply, prevReply} :
        rp.property \notin {"none", "Example"} =>
            /\ rp.r < 0
            /\ rp.error = "UnknownProperty"
            /\ rp.name = rp.property
            /\ rp.value = "none"

C12_ErrorKeepsRunning ==
    (reads' # reads /\ reply'.property # "Example") =>
        /\ pc' = "loop"
        /\ spc' = "none"
        /\ exitStatus' = -1
        /\ UNCHANGED <<bus, handles, event, eventStat, setupCalls, dispatched>>

C12_UnknownPropertyNotFatal ==
    [](C12_UnknownPropertyError) /\ [][C12_ErrorKeepsRunning]_vars

\* C12 witness: the loop is running after an unknown-property read
C12_Witness ==
    /\ LoopIdle
    /\ exitStatus = -1
    /\ reply.property = "Other"
    /\ reply.error = "UnknownProperty"

\* C13: setup() is entered once by main(), before the loop, and otherwise
\* only by a step that dispatches a Disconnected notification from the idle
\* loop, never while a setup() is running; so the number of setup() calls is
\* 1 plus the number of notifications dispatched, no handle has more than
\* one notification dispatched, and none is dispatched on a closed handle.
C13_SetupCallCount ==
    /\ pc \in {"event_default", "add_sigint", "add_sigterm"} => setupCalls = 0
    /\ (pc = "setup" /\ spc = "none") => setupCalls = 0
    /\ setupCalls > 0 => setupCalls = 1 + dispatched
    /\ setupCalls = 0 => dispatched = 0
    /\ pc \in {"loop", "release", "release_wait"} => setupCalls = 1 + dispatched
    /\ \A h \in Ids : handles[h].dispatches <= 1

C13_SetupCallers ==
    (setupCalls' # setupCalls) =>
        /\ setupCalls' = setupCalls + 1
        /\ spc = "none"
        /\ \/ /\ pc = "setup"
              /\ setupCalls = 0
              /\ caller' = "main"
              /\ dispatched' = dispatched
           \/ /\ pc = "loop"
              /\ caller' = "cb"
              /\ dispatched' = dispatched + 1
              /\ Live(cbHandle')
              /\ handles'[cbHandle'].dispatches = 1

C13_ClosedHandleSilent ==
    \A h \in Ids :
        ~Live(h) => handles'[h].dispatches = handles[h].dispatches

C13_SetupOnlyOnDisconnect ==
    /\ [](C13_SetupCallCount)
    /\ [][C13_SetupCallers /\ C13_ClosedHandleSilent]_vars

\* C13 witness: two notifications dispatched, three setup() calls, also
\* after a setup() that failed
C13_Witness ==
    /\ LoopIdle
    /\ dispatched = 2
    /\ setupCalls = 3
    /\ setupFailed

\* C14: whenever the loop is running and no callback is executing, the
\* slot holds the only live handle, and that handle has been started,
\* carries the object, a name request and an armed watch and is attached.
C14_LoopRunsFullySetUp ==
    LoopIdle =>
        /\ bus # 0
        /\ LiveHandles = {bus}
        /\ handles[bus].state # "unset"
        /\ FullySetUp(bus)

\* the order of the calls of setup() as the claim states it
SetupOrder ==
    <<"detach", "close", "new", "set_address", "set_bus_client",
      "negotiate_creds", "set_watch_bind", "set_connected_signal", "start",
      "add_object", "request_name", "match", "attach">>

\* C15: inside setup() the position only moves to the next call of the
\* stated order or, from any call wrapped in check(), to the return; setup()
\* is entered at the detach (slot populated) or at sd_bus_new (slot empty);
\* the close finds the handle detached and sd_bus_new finds the slot empty;
\* a call logged as failed is followed by the return with no handle changed;
\* and on every handle each registration implies the earlier ones: attached
\* implies the watch, the watch the name request, the name request the
\* object, the object the start, the start the configuration.
C15_StepOrder ==
    (spc' # spc) =>
        \/ spc = "none" /\ spc' \in {"detach", "new"}
        \/ spc = "ret" /\ spc' = "none"
        \/ \E i \in 1 .. Len(SetupOrder) :
            /\ spc = SetupOrder[i]
            /\ \/ i < Len(SetupOrder) /\ spc' = SetupOrder[i + 1]
               \/ spc # "close" /\ spc' = "ret"

C15_FailureStops ==
    (spc \notin {"none", "ret"} /\ log'.errno > 0) =>
        /\ spc' = "ret"
        /\ sret' = EXIT_FAILURE
        /\ handles' = handles
        /\ bus' = bus

C15_Layers ==
    /\ spc = "close" => (bus # 0 /\ Live(bus) /\ ~handles[bus].attached)
    /\ spc = "new" => bus = 0
    /\ \A h \in Ids :
        /\ handles[h].attached => handles[h].watches = 1
        /\ handles[h].watches > 0 => handles[h].names = 1
        /\ handles[h].names > 0 => handles[h].objects = 1
        /\ handles[h].objects > 0 => handles[h].state # "unset"
        /\ handles[h].state \in {"opening", "running", "closing", "disconnected"} =>
            /\ handles[h].connectedSignal
            /\ handles[h].watchBind
            /\ handles[h].creds
            /\ handles[h].busClient
            /\ handles[h].address
        /\ handles[h].connectedSignal => handles[h].watchBind
        /\ handles[h].watchBind => handles[h].creds
        /\ handles[h].creds => handles[h].busClient
        /\ handles[h].busClient => handles[h].address

C15_FixedSetupOrder ==
    [](C15_Layers) /\ [][C15_StepOrder /\ C15_FailureStops]_vars

\* C15 witness: a reconnect setup() returned at the failing name request,
\* with the object published and neither watch nor attachment
C15_Witness ==
    /\ spc = "ret"
    /\ caller = "cb"
    /\ sret = EXIT_FAILURE
    /\ log.call = "sd_bus_request_name_async"
    /\ bus = 2
    /\ handles[2].objects = 1
    /\ handles[2].names = 0
    /\ handles[2].watches = 0
    /\ ~handles[2].attached

\* C16: a callback (property read or disconnect) is dispatched only while
\* the loop is running and no callback is executing, one at a time, and only
\* for the handle in the slot, which is then attached and not closed; no
\* callback is dispatched while on_disconnect() and its setup() are running.
C16_Dispatch ==
    (reads' # reads \/ dispatched' # dispatched) =>
        /\ pc = "loop"
        /\ spc = "none"
        /\ caller = "none"
        /\ ~(reads' # reads /\ dispatched' # dispatched)
        /\ LET h == IF reads' # reads THEN reply'.handle ELSE cbHandle'
           IN /\ h = bus
              /\ Live(h)
              /\ handles[h].attached
              /\ ~handles[h].closedAttached

C17_LogMatchesOutcome ==
    log.call = "setup" => (log.errno = 0 <=> sret = 0)

\* C18: at most one event loop is created, by main() before the first
\* setup(); every handle that was attached was attached to it; no step taken
\* inside setup() or the disconnect callback changes main()'s reference or
\* creates or releases a loop; it is released only by main()'s cleanup, once.
C18_OneLoop ==
    /\ eventStat.created <= 1
    /\ eventStat.released <= eventStat.created
    /\ event = eventStat.created
    /\ setupCalls > 0 => event = 1
    /\ eventStat.released > 0 => pc \in {"cleanup_bus", "done"}
    /\ pc = "done" => eventStat.released = eventStat.created
    /\ \A h \in Ids :
        /\ handles[h].attached => handles[h].loop = event
        /\ handles[h].loop \in {0, event}

C18_SetupKeepsLoop ==
    (spc # "none" \/ spc' # "none") => UNCHANGED <<event, eventStat>>

C18_SingleEventLoop == [](C18_OneLoop) /\ [][C18_SetupKeepsLoop]_vars

\* C18 witness: the third handle generation is attached to the loop the
\* first one was attached to
C18_Witness ==
    /\ LoopIdle
    /\ bus = 3
    /\ handles[3].attached
    /\ handles[3].loop = 1
    /\ handles[1].loop = 1
    /\ eventStat = [created |-> 1, released |-> 0]

====
